---- MODULE Spec2Model ----
(***************************************************************************)
(* Lyftoff: the backward-chained "time to leave" pipeline described in     *)
(* time_to_leave_algorithm.py, the flyer generator of generate_flyers.py   *)
(* and the pick-up bookkeeping of the animation in visualization.py.       *)
(*                                                                         *)
(* Instants are minutes since midnight (18:00 = 1080), durations minutes.  *)
(***************************************************************************)
EXTENDS Integers, Sequences, FiniteSets, TLC

VARIABLES
    \* ---- time_to_leave_algorithm.py: one scheduling request ----
    profile,      \* flyer details (boarding time, gate, baggage, assistance, extra time)
    config,       \* buffer policy, padding, fallback opt-in, unavailable data source
    snapshot,     \* historical tables: TSA, Delta, Google Maps
    pc,           \* the step of the algorithm the request is at
    trace,        \* the stage results so far: T, U, V, W in this order
    result,       \* what the caller receives
    \* ---- generate_flyers.py ----
    id,           \* global id
    flyerList,    \* flyerList of the running generateFlyer call
    call,         \* arguments and loop position of the running generateFlyer call
    \* ---- visualization.py ----
    index,              \* index of the next draw_stuff tick
    flyer_nodes,        \* global flyer_nodes
    lyft_nodes,         \* global lyft_nodes
    late_flyers,        \* global late_flyers
    travelersPickedUp,  \* global travelersPickedUp
    lyftsGone           \* global lyftsGone

pipelineVars == <<profile, config, snapshot, pc, trace, result>>
generatorVars == <<id, flyerList, call>>
animationVars == <<index, flyer_nodes, lyft_nodes, late_flyers, travelersPickedUp, lyftsGone>>
vars == <<profile, config, snapshot, pc, trace, result, id, flyerList, call,
          index, flyer_nodes, lyft_nodes, late_flyers, travelersPickedUp, lyftsGone>>

(***************************************************************************)
(* Bounds                                                                  *)
(***************************************************************************)
MaxRecords == 2        \* records per historical table
MaxFlyers == 2         \* numFlyers of one generateFlyer call
MaxId == 3             \* flyers generated over all calls
MaxTicks == 3          \* len(flyer_data_json): ticks of the animation

(***************************************************************************)
(* Part 1. time_to_leave_algorithm.py                                      *)
(***************************************************************************)

\* Walk times (security checkpoint -> terminal, terminal -> gate) per gate.
Gates == {"A1", "F9"}
Unknown == "unknown"
WalkTimes == [g \in Gates |-> IF g = "A1" THEN [toTerminal |-> 5, toGate |-> 10]
                                          ELSE [toTerminal |-> 10, toGate |-> 15]]

Max(S) == CHOOSE m \in S : \A n \in S : n <= m

\* "Flight terminal and gate (else assume worst)"
WalkTime(gate) ==
    IF gate = Unknown
    THEN Max({WalkTimes[g].toTerminal : g \in Gates}) + Max({WalkTimes[g].toGate : g \in Gates})
    ELSE WalkTimes[gate].toTerminal + WalkTimes[gate].toGate

\* slip: the desired extra time taken off the walk time instead of added
XSubtractsExtra(p) == WalkTime(p.gate) - p.extraTime

\* X: security checkpoint to terminal + terminal to gate + additional time desired
X(p) == WalkTime(p.gate) + p.extraTime

\* T = boarding_time - X
CalcT(p) == p.boarding_time - X(p)

\* stdev term of a record: the stdev when the record carries one, else nothing
Stdev(has, sd) == IF has THEN sd ELSE 0

\* A start time meets a deadline when start + duration does not pass it.
Meets(start, duration, deadline) == start + duration <= deadline

\* slip: the stdev of the wait left out
SecurityCandidatesNoStdev(tsa) ==
    {[t |-> r.t, duration |-> r.wait_time, margin |-> r.hasStdev] : r \in tsa}

\* wait_time + stdev(wait_time) of a TSA record
SecurityCandidates(tsa) ==
    {[t |-> r.t, duration |-> r.wait_time + Stdev(r.hasStdev, r.stdev),
      margin |-> r.hasStdev] : r \in tsa}

\* slip: the bag-drop terms counted for the flyers without baggage
CheckInCandidatesSwapped(delta, hasBaggage) ==
    {[t |-> r.t,
      duration |-> r.check_in + Stdev(r.hasStdev, r.stdev_check_in)
                   + (IF ~hasBaggage
                      THEN r.drop_bag_time + Stdev(r.hasStdev, r.stdev_drop_bag)
                      ELSE 0),
      margin |-> r.hasStdev] : r \in delta}

\* check_in + drop_bag_time + stdev(check_in) + stdev(drop_bag_time) of a Delta
\* record; the bag-drop terms count only for a flyer who drops baggage
CheckInCandidates(delta, hasBaggage) ==
    {[t |-> r.t,
      duration |-> r.check_in + Stdev(r.hasStdev, r.stdev_check_in)
                   + (IF hasBaggage
                      THEN r.drop_bag_time + Stdev(r.hasStdev, r.stdev_drop_bag)
                      ELSE 0),
      margin |-> r.hasStdev] : r \in delta}

\* travel_time (+ stdev(travel_time), if exists) of a Google Maps answer
TravelCandidates(maps) ==
    {[t |-> r.t, duration |-> r.travel_time + Stdev(r.hasStdev, r.stdev),
      margin |-> r.hasStdev] : r \in maps}

Qualifying(cands, deadline) == {c \in cands : Meets(c.t, c.duration, deadline)}

Distance(a, b) == IF a >= b THEN a - b ELSE b - a

\* "the closest time U to T such that ..."
Closest(cands, deadline) ==
    CHOOSE c \in cands : \A d \in cands : Distance(c.t, deadline) <= Distance(d.t, deadline)

Failure(why) == [ok |-> FALSE, why |-> why, instant |-> 0, duration |-> 0, margin |-> FALSE]
Resolved(instant, duration, margin) ==
    [ok |-> TRUE, why |-> "", instant |-> instant, duration |-> duration, margin |-> margin]

\* slip: the closest record time taken whether or not it meets the deadline
SearchUnfiltered(cands, deadline) ==
    IF cands = {} THEN Failure("Infeasible")
    ELSE LET c == Closest(cands, deadline) IN Resolved(c.t, c.duration, c.margin)

\* The backward search of one stage over its candidate start times.
Search(cands, deadline) ==
    LET q == Qualifying(cands, deadline) IN
    IF q = {} THEN Failure("Infeasible")
    ELSE LET c == Closest(q, deadline) IN Resolved(c.t, c.duration, c.margin)

\* One stage: a data source that cannot be queried fails the stage unless the
\* caller opted in to the worst-case constant.
Stage(source, cands, deadline, cfg) ==
    IF source = cfg.unavailable
    THEN IF cfg.optIn THEN Resolved(deadline - cfg.fallback, cfg.fallback, FALSE)
         ELSE Failure("DataUnavailable")
    ELSE Search(cands, deadline)

\* Stage 1: the security-completion deadline T
ResolverStage(p) == Resolved(CalcT(p), X(p), TRUE)

\* U from the TSA historical data and T
SecurityStage(s, cfg, t) == Stage("security", SecurityCandidates(s.tsa), t, cfg)

\* V from the Delta historical data and U
CheckInStage(s, cfg, p, u) == Stage("checkin", CheckInCandidates(s.delta, p.hasBaggage), u, cfg)

\* The deadline the travel stage works against: "... = U"
TravelDeadline(u, v) == u

\* W from the Google Maps data
TravelStage(s, cfg, u, v) == Stage("travel", TravelCandidates(s.maps), TravelDeadline(u, v), cfg)

\* slip: the padding added to the departure time
AssistanceAdds(w, p, cfg) == IF p.needAssistance THEN w + cfg.padding ELSE w

\* "May need to increase time due to additional moving help."
Assistance(w, p, cfg) == IF p.needAssistance THEN w - cfg.padding ELSE w

\* "Return W - ~5-15 minutes (toilet / safety) ... Or ... return W without modification."
FinalAdjustment(w, p, cfg) ==
    IF cfg.policy = "subtract" THEN Assistance(w, p, cfg) - cfg.buffer
    ELSE Assistance(w, p, cfg)

Pending ==
    [kind |-> "pending", departure |-> 0, stages |-> <<>>, stage |-> "", why |-> "",
     degraded |-> FALSE]
Recommendation(departure, stages) ==
    [kind |-> "recommendation", departure |-> departure, stages |-> stages, stage |-> "",
     why |-> "", degraded |-> \E k \in 1..Len(stages) : ~stages[k].margin]
Error(stage, why) ==
    [kind |-> "error", departure |-> 0, stages |-> <<>>, stage |-> stage, why |-> why,
     degraded |-> FALSE]

\* The whole request as one function of (profile, config, snapshot).
RunPipeline(p, cfg, s) ==
    LET t == ResolverStage(p)
        u == SecurityStage(s, cfg, t.instant)
        v == CheckInStage(s, cfg, p, u.instant)
        w == TravelStage(s, cfg, u.instant, v.instant)
    IN  IF ~u.ok THEN Error("security", u.why)
        ELSE IF ~v.ok THEN Error("checkin", v.why)
        ELSE IF ~w.ok THEN Error("travel", w.why)
        ELSE Recommendation(FinalAdjustment(w.instant, p, cfg), <<t, u, v, w>>)

\* ---- the inputs ----
BoardingTimes == {1080}
ExtraTimes == {0, 25}
Profiles ==
    [boarding_time : BoardingTimes, gate : {"A1", Unknown}, hasBaggage : BOOLEAN,
     needAssistance : BOOLEAN, extraTime : ExtraTimes]

Configs ==
    {c \in [policy : {"subtract", "grace"}, buffer : {5, 10}, padding : {15},
            unavailable : {"none", "security", "checkin", "travel"},
            optIn : BOOLEAN, fallback : {45}] :
        /\ (c.policy = "grace" => c.buffer = 10)
        /\ (c.unavailable = "none" => ~c.optIn)}

TsaRecords ==
    { [t |-> 1000, wait_time |-> 30, hasStdev |-> FALSE, stdev |-> 0],
      [t |-> 1040, wait_time |-> 20, hasStdev |-> TRUE,  stdev |-> 5],
      [t |-> 1040, wait_time |-> 20, hasStdev |-> TRUE,  stdev |-> 6],
      [t |-> 1070, wait_time |-> 0,  hasStdev |-> TRUE,  stdev |-> 0] }

DeltaRecords ==
    { [t |-> 960,  check_in |-> 10, stdev_check_in |-> 0, drop_bag_time |-> 20,
       stdev_drop_bag |-> 0, hasStdev |-> FALSE],
      [t |-> 1025, check_in |-> 10, stdev_check_in |-> 2, drop_bag_time |-> 5,
       stdev_drop_bag |-> 1, hasStdev |-> TRUE],
      [t |-> 1035, check_in |-> 5,  stdev_check_in |-> 0, drop_bag_time |-> 0,
       stdev_drop_bag |-> 0, hasStdev |-> TRUE] }

MapsRecords ==
    { [t |-> 900,  travel_time |-> 45, hasStdev |-> FALSE, stdev |-> 0],
      [t |-> 990,  travel_time |-> 30, hasStdev |-> TRUE,  stdev |-> 5],
      [t |-> 1030, travel_time |-> 5,  hasStdev |-> TRUE,  stdev |-> 0] }

\* Tables hold at most one record per time of day.
Tables(records) ==
    {tab \in SUBSET records :
        /\ Cardinality(tab) <= MaxRecords
        /\ \A r1, r2 \in tab : r1.t = r2.t => r1 = r2}

Snapshots == [tsa : Tables(TsaRecords), delta : Tables(DeltaRecords), maps : Tables(MapsRecords)]

\* ---- the request as a state machine ----
PipelineIdle ==
    /\ profile = [boarding_time |-> 0, gate |-> Unknown, hasBaggage |-> FALSE,
                  needAssistance |-> FALSE, extraTime |-> 0]
    /\ config = [policy |-> "grace", buffer |-> 10, padding |-> 15, unavailable |-> "none",
                 optIn |-> FALSE, fallback |-> 45]
    /\ snapshot = [tsa |-> {}, delta |-> {}, maps |-> {}]
    /\ pc = "idle"
    /\ trace = <<>>
    /\ result = Pending

NoCall ==
    [running |-> FALSE, numFlyers |-> 0, flightNumber |-> 0, pBaggage |-> 0,
     pNeedAssistance |-> 0, i |-> 0]

GeneratorIdle ==
    /\ id = 0
    /\ flyerList = <<>>
    /\ call = NoCall

AnimationIdle ==
    /\ index = 0
    /\ flyer_nodes = <<>>
    /\ lyft_nodes = <<>>
    /\ late_flyers = {}
    /\ travelersPickedUp = 0
    /\ lyftsGone = 0

PipelineInit ==
    /\ profile \in Profiles
    /\ config \in Configs
    /\ snapshot \in Snapshots
    /\ pc = "resolver"
    /\ trace = <<>>
    /\ result = Pending
    /\ GeneratorIdle
    /\ AnimationIdle

Fail(stage, r) ==
    /\ pc' = "failed"
    /\ result' = Error(stage, r.why)
    /\ trace' = trace

Pass(next, r) ==
    /\ pc' = next
    /\ trace' = Append(trace, r)
    /\ result' = result

Resolver ==
    /\ pc = "resolver"
    /\ Pass("security", ResolverStage(profile))
    /\ UNCHANGED <<profile, config, snapshot, generatorVars, animationVars>>

\* slip: the check-in stage entered although the security stage failed
SecurityContinues ==
    /\ pc = "security"
    /\ Pass("checkin", SecurityStage(snapshot, config, trace[1].instant))
    /\ UNCHANGED <<profile, config, snapshot, generatorVars, animationVars>>

Security ==
    /\ pc = "security"
    /\ LET r == SecurityStage(snapshot, config, trace[1].instant) IN
       IF r.ok THEN Pass("checkin", r) ELSE Fail("security", r)
    /\ UNCHANGED <<profile, config, snapshot, generatorVars, animationVars>>

CheckIn ==
    /\ pc = "checkin"
    /\ LET r == CheckInStage(snapshot, config, profile, trace[2].instant) IN
       IF r.ok THEN Pass("travel", r) ELSE Fail("checkin", r)
    /\ UNCHANGED <<profile, config, snapshot, generatorVars, animationVars>>

Travel ==
    /\ pc = "travel"
    /\ LET r == TravelStage(snapshot, config, trace[2].instant, trace[3].instant) IN
       IF r.ok THEN Pass("aggregate", r) ELSE Fail("travel", r)
    /\ UNCHANGED <<profile, config, snapshot, generatorVars, animationVars>>

Aggregate ==
    /\ pc = "aggregate"
    /\ pc' = "done"
    /\ result' = Recommendation(FinalAdjustment(trace[4].instant, profile, config), trace)
    /\ trace' = trace
    /\ UNCHANGED <<profile, config, snapshot, generatorVars, animationVars>>

PipelineNext == Resolver \/ Security \/ CheckIn \/ Travel \/ Aggregate

PipelineSpec == PipelineInit /\ [][PipelineNext]_vars

\* the request is a single bounded sequential computation: it keeps stepping
PipelineFairSpec == PipelineSpec /\ WF_vars(PipelineNext)

(***************************************************************************)
(* Properties of the pipeline                                              *)
(***************************************************************************)
Min(S) == CHOOSE m \in S : \A n \in S : m <= n
Terminal == pc \in {"done", "failed"}
ResultIsRun == Terminal => result = RunPipeline(profile, config, snapshot)

\* the instants of a request that passed the corresponding stage
T == trace[1].instant
U == trace[2].instant
V == trace[3].instant
W == trace[4].instant

AllAvailable == config.unavailable = "none"

\* C1: on every successful run (here: with every data source available)
\* W <= V <= U <= T <= boarding time.
C1_DeadlineChain ==
    (pc = "done" /\ AllAvailable)
        => (W <= V /\ V <= U /\ U <= T /\ T <= profile.boarding_time)

\* record times of the security table that clear security by deadline t
SecurityClears(t) ==
    {r.t : r \in {q \in snapshot.tsa :
                    q.t + q.wait_time + (IF q.hasStdev THEN q.stdev ELSE 0) <= t}}
SecurityRan == pc \notin {"resolver", "security"} /\ config.unavailable # "security"

\* C2: the security stage returns the maximum record time U with
\* U + mean_wait(U) + stdev_wait(U) <= T (stdev 0 when the record has none), and is
\* Infeasible exactly when no record satisfies the inequality.
C2_SecurityLatest ==
    SecurityRan =>
        /\ (SecurityClears(T) # {}) => (Len(trace) >= 2 /\ U = Max(SecurityClears(T)))
        /\ (SecurityClears(T) = {}) <=>
               (pc = "failed" /\ result.stage = "security" /\ result.why = "Infeasible")

\* the 17:20 + 20 + 5 = 17:45 record chosen against T = 17:45
C2_Witness ==
    /\ SecurityRan /\ Len(trace) >= 2 /\ T = 1065 /\ U = 1040
    /\ [t |-> 1040, wait_time |-> 20, hasStdev |-> TRUE, stdev |-> 5] \in snapshot.tsa

\* departure times of the routing table that reach the airport by deadline d
TravelReaches(d) ==
    {r.t : r \in {q \in snapshot.maps :
                    q.t + q.travel_time + (IF q.hasStdev THEN q.stdev ELSE 0) <= d}}
TravelRan == pc \notin {"resolver", "security", "checkin", "travel"} /\ Len(trace) >= 3
             /\ AllAvailable

\* C3: the travel stage takes V as its deadline and returns the latest departure
\* W with W + travel_time(W) + stdev(W) <= V, Infeasible when there is none.
C3_TravelAgainstV ==
    TravelRan =>
        /\ (TravelReaches(V) # {}) => (Len(trace) >= 4 /\ W = Max(TravelReaches(V)))
        /\ (TravelReaches(V) = {}) <=>
               (pc = "failed" /\ result.stage = "travel" /\ result.why = "Infeasible")

WithAssistance(b) == RunPipeline([profile EXCEPT !.needAssistance = b], config, snapshot)

\* C4: the final instant is W minus the padding iff assistance is needed, minus the
\* buffer iff the policy is "subtract"; it is never later than W and assistance never
\* makes it later.
C4_Aggregator ==
    pc = "done" =>
        /\ result.departure = W - (IF profile.needAssistance THEN config.padding ELSE 0)
                                - (IF config.policy = "subtract" THEN config.buffer ELSE 0)
        /\ result.departure <= W
        /\ WithAssistance(TRUE).departure <= WithAssistance(FALSE).departure

\* W = 16:30, padding 15, buffer 10 gives 16:05
C4_Witness ==
    /\ pc = "done" /\ W = 990 /\ profile.needAssistance /\ config.padding = 15
    /\ config.policy = "subtract" /\ config.buffer = 10 /\ result.departure = 965

TooEarly ==
    /\ config.unavailable # "security"
    /\ snapshot.tsa # {}
    /\ profile.boarding_time - WalkTime(profile.gate) - profile.extraTime
          < Min({r.t : r \in snapshot.tsa})

\* C5: when boarding time minus the fixed durations is earlier than the earliest
\* security record, the result is Infeasible and no departure time is returned.
C5_TooEarlyInfeasible ==
    TooEarly =>
        /\ pc \in {"resolver", "security", "failed"}
        /\ result.kind # "recommendation"
        /\ pc = "failed" => (result.kind = "error" /\ result.why = "Infeasible"
                                /\ result.departure = 0 /\ result.stages = <<>>)

C5_Witness == TooEarly /\ pc = "failed" /\ result.why = "Infeasible"

StageOrder == <<"resolver", "security", "checkin", "travel", "aggregate", "done">>
Position(p) == CHOOSE k \in 1..Len(StageOrder) : StageOrder[k] = p

C6_Shape ==
    /\ \A k \in 1..Len(trace) : trace[k].ok
    /\ pc # "failed" => Len(trace) = Min({Position(pc) - 1, 4})
    /\ pc \notin {"done", "failed"} => result = Pending
    /\ pc = "done" => (result.kind = "recommendation" /\ result.stages = trace
                          /\ Len(result.stages) = 4)
    /\ pc = "failed" => /\ result.kind = "error"
                         /\ Len(trace) \in 1..3
                         /\ result.stage = StageOrder[Len(trace) + 1]
                         /\ result.why \in {"Infeasible", "DataUnavailable"}
                         /\ (result.why = "DataUnavailable") =>
                               (config.unavailable = result.stage /\ ~config.optIn)

C6_Step ==
    /\ Terminal => UNCHANGED <<pc, trace, result>>
    /\ ~Terminal => (pc' = "failed" \/ pc' = StageOrder[Position(pc) + 1])

\* C6: the stages run in the order resolver, security, check-in, travel, aggregator;
\* nothing runs after a failed stage; the request ends with either a complete
\* recommendation holding all stage results or one error naming the failed stage.
C6_OrderAndPropagation == []C6_Shape /\ [][C6_Step]_vars /\ <>Terminal

C6_Witness == pc = "failed" /\ result.stage = "checkin" /\ Len(trace) = 2

WithBaggage(b) == RunPipeline([profile EXCEPT !.hasBaggage = b], config, snapshot)
Counterpart(b) == IF profile.hasBaggage = b THEN result ELSE WithBaggage(b)

\* C7: of two runs that differ only in has-checked-baggage, the one with baggage never
\* departs later when both succeed, and is Infeasible when the one without is.
C7_Baggage ==
    Terminal =>
        /\ (Counterpart(TRUE).kind = "recommendation"
               /\ Counterpart(FALSE).kind = "recommendation")
             => Counterpart(TRUE).departure <= Counterpart(FALSE).departure
        /\ (Counterpart(FALSE).kind = "error" /\ Counterpart(FALSE).why = "Infeasible")
             => (Counterpart(TRUE).kind = "error" /\ Counterpart(TRUE).why = "Infeasible")

\* both runs succeed and baggage moved the airport-arrival time
C7_Witness ==
    /\ pc = "done" /\ profile.hasBaggage
    /\ WithBaggage(FALSE).kind = "recommendation"
    /\ V < WithBaggage(FALSE).stages[3].instant

WithExtra(e) == RunPipeline([profile EXCEPT !.extraTime = e], config, snapshot)

\* C8: with everything else fixed, a larger extra time never gives a later departure.
C8_ExtraTimeMonotone ==
    pc = "done" =>
        \A e \in ExtraTimes :
            (e >= profile.extraTime /\ WithExtra(e).kind = "recommendation")
                => WithExtra(e).departure <= result.departure

\* a larger extra time that changes the records used and moves the departure
C8_Witness ==
    /\ pc = "done"
    /\ \E e \in ExtraTimes :
          /\ e > profile.extraTime /\ WithExtra(e).kind = "recommendation"
          /\ WithExtra(e).departure < result.departure
          /\ WithExtra(e).stages[2].duration # trace[2].duration


(***************************************************************************)
(* Part 2. generate_flyers.py                                              *)
(***************************************************************************)

\* values random.randint(0, 100) may return (the ends and the values around
\* the probabilities used)
Draws == {0, 4, 5, 29, 30, 34, 35, 49, 50, 100}

\* coinflip(pSuccess) for the drawn res
coinflip(res, pSuccess) == res < pSuccess

\* 1 if coinflip(50) else (2 if coinflip(30) else -1)
lyftPreference(res1, res2) ==
    IF coinflip(res1, 50) THEN 1 ELSE (IF coinflip(res2, 30) THEN 2 ELSE -1)

\* (flightNumber, pBaggage, pNeedAssistance) of the calls at the end of the script
Flights == {<<1560, 35, 5>>, <<906, 50, 3>>}

GeneratorInit ==
    /\ GeneratorIdle
    /\ PipelineIdle
    /\ AnimationIdle

\* generateFlyer(numFlyers, flightNumber, pBaggage, pNeedAssistance) is entered
generateFlyer ==
    /\ ~call.running
    /\ \E n \in 0..MaxFlyers, f \in Flights :
         /\ id + n <= MaxId
         /\ call' = [running |-> TRUE, numFlyers |-> n, flightNumber |-> f[1],
                     pBaggage |-> f[2], pNeedAssistance |-> f[3], i |-> 0]
    /\ flyerList' = <<>>
    /\ UNCHANGED <<id, pipelineVars, animationVars>>

\* one iteration of "for i in range(numFlyers)"
generateFlyerLoop ==
    /\ call.running
    /\ call.i < call.numFlyers
    /\ \E resB, resA, res1, res2 \in Draws :
         flyerList' = Append(flyerList,
             [id |-> id,
              flightNumber |-> call.flightNumber,
              hasBaggage |-> coinflip(resB, call.pBaggage),
              needAssistance |-> coinflip(resA, call.pNeedAssistance),
              lyftPreference |-> lyftPreference(res1, res2)])
    /\ id' = id + 1
    /\ call' = [call EXCEPT !.i = call.i + 1]
    /\ UNCHANGED <<pipelineVars, animationVars>>

\* the loop is over: the list is printed and returned
generateFlyerReturn ==
    /\ call.running
    /\ call.i = call.numFlyers
    /\ call' = NoCall
    /\ UNCHANGED <<id, flyerList, pipelineVars, animationVars>>

GeneratorNext == generateFlyer \/ generateFlyerLoop \/ generateFlyerReturn

GeneratorSpec == GeneratorInit /\ [][GeneratorNext]_vars

\* C9: every generated flyer has a lyftPreference among the documented classes 0..5.
C9_PreferenceDocumented ==
    \A k \in 1..Len(flyerList) : flyerList[k].lyftPreference \in 0..5


(***************************************************************************)
(* Part 3. visualization.py                                                *)
(***************************************************************************)

FlyerIds == {1, 2}
LyftIds == {1, 2}
\* pickupTime values of the input files, in seconds (18:29:00, 18:31:05)
PickupSeconds == {66540, 66665}
LyftPickupSeconds == {66540, 66665}

FlyerData == [id : FlyerIds, pickupTime : PickupSeconds]
\* lyft k is paired with flyer k
LyftData == {l \in [id : LyftIds, pickupTime : LyftPickupSeconds, pairID : FlyerIds] :
                l.pairID = l.id}

\* the entries of one tick: each id at most once
Batches(data) ==
    {<<>>} \cup {<<a>> : a \in data}
           \cup {<<p[1], p[2]>> : p \in {q \in data \X data : q[1].id # q[2].id}}

\* the same, the entries in the order of their ids
OrderedBatches(data) == {b \in Batches(data) : Len(b) = 2 => b[1].id < b[2].id}

\* time = 1110, and every use is time + index
time(i) == 1110 + i

\* pickupTime // 60
Minutes(seconds) == seconds \div 60

\* slip: the "pickedUp" not in flyer_node test left out
redraw_flyer_node_recount(now, node, picked) ==
    IF now > node.pickupTime
    THEN [node |-> [node EXCEPT !.pickedUp = TRUE], picked |-> picked + 1, raised |-> FALSE]
    ELSE [node |-> node, picked |-> picked, raised |-> node.pickupTime = node.startTime]

\* redraw_flyer_node: the node and counter after the call, and whether the
\* position computation divided by pickupTime - startTime = 0
redraw_flyer_node(now, node, picked) ==
    IF now > node.pickupTime
    THEN IF ~node.pickedUp
         THEN [node |-> [node EXCEPT !.pickedUp = TRUE], picked |-> picked + 1, raised |-> FALSE]
         ELSE [node |-> node, picked |-> picked, raised |-> FALSE]
    ELSE [node |-> node, picked |-> picked, raised |-> node.pickupTime = node.startTime]

\* lines 106-114: the node of a flyer entry, created or updated
FlyerNode(now, flyer, nodes) ==
    LET created == IF flyer.id \in DOMAIN nodes THEN nodes[flyer.id]
                   ELSE [startTime |-> now, pickupTime |-> Minutes(flyer.pickupTime),
                         isLate |-> FALSE, pickedUp |-> FALSE]
    IN  IF created.pickupTime # Minutes(flyer.pickupTime)
        THEN [created EXCEPT !.isLate = TRUE, !.pickupTime = Minutes(flyer.pickupTime)]
        ELSE created

IsLateEntry(flyer, nodes) ==
    flyer.id \in DOMAIN nodes /\ nodes[flyer.id].pickupTime # Minutes(flyer.pickupTime)

Put(nodes, key, node) == [k \in DOMAIN nodes \cup {key} |-> IF k = key THEN node ELSE nodes[k]]

\* "for flyer in flyer_data_json[index]"; an exception ends the tick
RECURSIVE FlyerLoop(_, _, _)
FlyerLoop(now, flyers, st) ==
    IF flyers = <<>> \/ st.raised THEN st
    ELSE LET flyer == Head(flyers)
             late == IF IsLateEntry(flyer, st.flyer_nodes)
                     THEN st.late_flyers \cup {flyer.id} ELSE st.late_flyers
             r == redraw_flyer_node(now, FlyerNode(now, flyer, st.flyer_nodes),
                                    st.travelersPickedUp)
         IN  FlyerLoop(now, Tail(flyers),
                 [st EXCEPT !.flyer_nodes = Put(st.flyer_nodes, flyer.id, r.node),
                            !.late_flyers = late,
                            !.travelersPickedUp = r.picked,
                            !.raised = r.raised])

\* redraw_lyft_node
redraw_lyft_node(now, node, fnodes, picked, gone) ==
    IF now > node.pickupTime /\ ~node.pickedUp /\ picked > gone
    THEN [node |-> [node EXCEPT !.pickedUp = TRUE], gone |-> gone + 1, raised |-> FALSE]
    ELSE IF node.pickedUp
    THEN [node |-> node, gone |-> gone, raised |-> FALSE]
    ELSE [node |-> node, gone |-> gone,
          raised |-> \/ node.pickupTime = node.startTime
                     \/ /\ node.isPassengerLate
                        /\ fnodes[node.pairID].pickupTime = fnodes[node.pairID].startTime]

\* lines 117-124: the node of a lyft entry, created or updated
LyftNode(now, lyft, nodes, late) ==
    LET created == IF lyft.id \in DOMAIN nodes THEN nodes[lyft.id]
                   ELSE [startTime |-> now, pickupTime |-> Minutes(lyft.pickupTime),
                         isPassengerLate |-> FALSE, pairID |-> lyft.pairID,
                         pickedUp |-> FALSE]
    IN  IF created.pairID \in late THEN [created EXCEPT !.isPassengerLate = TRUE]
        ELSE created

\* "for lyft in lyft_data_json[index]"; an exception ends the tick
RECURSIVE LyftLoop(_, _, _)
LyftLoop(now, lyfts, st) ==
    IF lyfts = <<>> \/ st.raised THEN st
    ELSE LET lyft == Head(lyfts)
             r == redraw_lyft_node(now, LyftNode(now, lyft, st.lyft_nodes, st.late_flyers),
                                   st.flyer_nodes, st.travelersPickedUp, st.lyftsGone)
         IN  LyftLoop(now, Tail(lyfts),
                 [st EXCEPT !.lyft_nodes = Put(st.lyft_nodes, lyft.id, r.node),
                            !.lyftsGone = r.gone,
                            !.raised = r.raised])

AnimationInit ==
    /\ AnimationIdle
    /\ PipelineIdle
    /\ GeneratorIdle

\* one tick of draw_stuff(root, canvas, index, flyer_data_json, lyft_data_json); the
\* next tick is scheduled before the loops, so it comes also after an exception
draw_stuff ==
    /\ index < MaxTicks
    /\ \E flyers \in Batches(FlyerData), lyfts \in OrderedBatches(LyftData) :
         LET st0 == [flyer_nodes |-> flyer_nodes, lyft_nodes |-> lyft_nodes,
                     late_flyers |-> late_flyers, travelersPickedUp |-> travelersPickedUp,
                     lyftsGone |-> lyftsGone, raised |-> FALSE]
             st == LyftLoop(time(index), lyfts, FlyerLoop(time(index), flyers, st0))
         IN  /\ flyer_nodes' = st.flyer_nodes
             /\ lyft_nodes' = st.lyft_nodes
             /\ late_flyers' = st.late_flyers
             /\ travelersPickedUp' = st.travelersPickedUp
             /\ lyftsGone' = st.lyftsGone
    /\ index' = index + 1
    /\ UNCHANGED <<pipelineVars, generatorVars>>

AnimationNext == draw_stuff

AnimationSpec == AnimationInit /\ [][AnimationNext]_vars

PickedFlyers == {k \in DOMAIN flyer_nodes : flyer_nodes[k].pickedUp}
GoneLyfts == {k \in DOMAIN lyft_nodes : lyft_nodes[k].pickedUp}

C10_Counts ==
    /\ lyftsGone <= travelersPickedUp
    /\ travelersPickedUp = Cardinality(PickedFlyers)
    /\ lyftsGone = Cardinality(GoneLyfts)
    /\ travelersPickedUp <= Cardinality(DOMAIN flyer_nodes)
    /\ lyftsGone <= Cardinality(DOMAIN lyft_nodes)

C10_Once ==
    /\ \A k \in DOMAIN flyer_nodes :
         k \in DOMAIN flyer_nodes' /\ (flyer_nodes[k].pickedUp => flyer_nodes'[k].pickedUp)
    /\ \A k \in DOMAIN lyft_nodes :
         k \in DOMAIN lyft_nodes' /\ (lyft_nodes[k].pickedUp => lyft_nodes'[k].pickedUp)
    /\ travelersPickedUp' >= travelersPickedUp
    /\ lyftsGone' >= lyftsGone

\* C10: lyftsGone <= travelersPickedUp; every flyer and every lyft is counted at
\* most once, its pickedUp flag staying set (also when the pickupTime changes); so
\* each counter is at most the number of distinct nodes seen.
C10_PickupCounters == []C10_Counts /\ [][C10_Once]_vars

\* a picked-up flyer whose pickupTime was moved to a later minute, and a lyft gone
C10_Witness ==
    /\ lyftsGone >= 1
    /\ \E k \in DOMAIN flyer_nodes :
         /\ flyer_nodes[k].pickedUp /\ flyer_nodes[k].isLate
         /\ flyer_nodes[k].pickupTime >= time(index - 1)

====
